---- MODULE Spec2Model ----
(***************************************************************************)
(* A model of main.py, the restaurant finder: argument validation, the     *)
(* geocoder (get_location), the paginating fetcher                         *)
(* (fetch_all_restaurants), the classifier (is_true_restaurant), the       *)
(* ranker (filter_and_rank_restaurants) and the presenter                  *)
(* (display_results).                                                      *)
(*                                                                         *)
(* Representation of Python values:                                        *)
(*   str    a tuple of one-character strings, "" is << >>                  *)
(*   None   the value None below (no str equals it)                        *)
(*   dict   a function; a key the dict lacks is outside its DOMAIN         *)
(*   list   a sequence                                                     *)
(*   float  a scaled integer: miles in 1/100, ratings in 1/10, degrees in  *)
(*          1/10000. The inputs of the model are decimals with that many   *)
(*          digits, on which the scaled arithmetic agrees with the         *)
(*          program's floating point.                                      *)
(***************************************************************************)
EXTENDS Integers, Sequences, FiniteSets, TLC

VARIABLES
    pc,                   \* where the run is: a position of main(), or of a direct call
    args,                 \* the argparse namespace (main.py:320)
    exit_code,            \* the process's exit status, read when pc is "exit" or "done"
    location,             \* main's lat, lng, location_name (main.py:340)
    radius_meters,        \* fetch_all_restaurants' local (main.py:135)
    page_count,           \* fetch_all_restaurants' local (main.py:134)
    next_page_token,      \* fetch_all_restaurants' local (main.py:133)
    all_restaurants,      \* fetch_all_restaurants' local and result (main.py:132)
    filtered_restaurants, \* main's ranked list (main.py:350)
    MAX_DISPLAY,          \* the module global main() overwrites (main.py:15, 356)
    trace,                \* what the run did, in order: prints, sleeps, requests, responses
    place,                \* the argument of a direct call of is_true_restaurant
    verdict               \* its result

vars == <<pc, args, exit_code, location, radius_meters, page_count, next_page_token,
          all_restaurants, filtered_restaurants, MAX_DISPLAY, trace, place, verdict>>

----------------------------------------------------------------------------
(* Python values *)

None == <<"None">>

\* bool(s) of a str or None
Truthy(s) == s # None /\ s # <<>>

\* d.get(k, default)
Get(d, k, default) == IF k \in DOMAIN d THEN d[k] ELSE default

Range(s) == {s[i] : i \in 1..Len(s)}

Min(a, b) == IF a <= b THEN a ELSE b

Max(a, b) == IF a >= b THEN a ELSE b

UpperChars == <<"A","B","C","D","E","F","G","H","I","J","K","L","M",
                "N","O","P","Q","R","S","T","U","V","W","X","Y","Z">>

LowerChars == <<"a","b","c","d","e","f","g","h","i","j","k","l","m",
                "n","o","p","q","r","s","t","u","v","w","x","y","z">>

DigitChars == <<"0","1","2","3","4","5","6","7","8","9">>

IndexIn(c, chars) == CHOOSE i \in 1..Len(chars) : chars[i] = c

\* str.lower(), on ASCII
lower(s) ==
    [i \in 1..Len(s) |->
        IF s[i] \in Range(UpperChars) THEN LowerChars[IndexIn(s[i], UpperChars)] ELSE s[i]]

IsLetter(c) == c \in Range(UpperChars) \cup Range(LowerChars)

\* str.title(), on ASCII: a letter after a non-letter is upper-cased, the others lower-cased
title(s) ==
    [i \in 1..Len(s) |->
        IF i = 1 \/ ~IsLetter(s[i - 1])
        THEN IF s[i] \in Range(LowerChars) THEN UpperChars[IndexIn(s[i], LowerChars)] ELSE s[i]
        ELSE IF s[i] \in Range(UpperChars) THEN LowerChars[IndexIn(s[i], UpperChars)] ELSE s[i]]

\* sub in s
Contains(sub, s) ==
    \E i \in 0..(Len(s) - Len(sub)) : SubSeq(s, i + 1, i + Len(sub)) = sub

\* s.split(sep), sep one character
RECURSIVE split(_, _)
split(s, sep) ==
    IF \E i \in 1..Len(s) : s[i] = sep
    THEN LET i == CHOOSE k \in 1..Len(s) : s[k] = sep /\ \A j \in 1..(k - 1) : s[j] # sep
         IN  <<SubSeq(s, 1, i - 1)>> \o split(SubSeq(s, i + 1, Len(s)), sep)
    ELSE <<s>>

\* s.strip(), of blanks
RECURSIVE strip(_)
strip(s) ==
    IF s # <<>> /\ Head(s) = " " THEN strip(Tail(s))
    ELSE IF s # <<>> /\ s[Len(s)] = " " THEN strip(SubSeq(s, 1, Len(s) - 1))
    ELSE s

\* the number a string of digits writes
RECURSIVE DigitsValue(_)
DigitsValue(s) ==
    IF s = <<>> THEN 0
    ELSE 10 * DigitsValue(SubSeq(s, 1, Len(s) - 1)) + (IndexIn(s[Len(s)], DigitChars) - 1)

RECURSIVE Pow10(_)
Pow10(n) == IF n = 0 THEN 1 ELSE 10 * Pow10(n - 1)

\* the fractional digits a degree keeps in the model (main.py:80 prints as many)
DegreeDigits == 4

DegreeScale == Pow10(DegreeDigits)

Unsigned(s) == IF s # <<>> /\ Head(s) \in {"+", "-"} THEN Tail(s) ELSE s

\* Whether float(s) returns: the decimal literals [sign] digits [. digits] with at least one
\* digit (after the strip float() itself does). float() also reads exponents, "inf",
\* "nan" and longer fractions; the model's inputs hold none of them.
IsFloatLiteral(s) ==
    LET u == Unsigned(strip(s))
        parts == split(u, ".")
    IN  /\ Len(parts) \in {1, 2}
        /\ \A i \in 1..Len(parts) : Range(parts[i]) \subseteq Range(DigitChars)
        /\ \E i \in 1..Len(parts) : parts[i] # <<>>
        /\ Len(parts) = 2 => Len(parts[2]) <= DegreeDigits

\* float(s), in 1/10000
float(s) ==
    LET t == strip(s)
        u == Unsigned(t)
        parts == split(u, ".")
        frac == IF Len(parts) = 2 THEN parts[2] ELSE <<>>
        magnitude == DigitsValue(parts[1]) * DegreeScale
                     + DigitsValue(frac) * Pow10(DegreeDigits - Len(frac))
    IN  IF t # <<>> /\ Head(t) = "-" THEN 0 - magnitude ELSE magnitude

\* the digits of a natural number
RECURSIVE NatDigits(_)
NatDigits(n) ==
    IF n < 10 THEN <<DigitChars[n + 1]>> ELSE NatDigits(n \div 10) \o <<DigitChars[(n % 10) + 1]>>

ZeroPad(s, width) == [i \in 1..(width - Len(s)) |-> "0"] \o s

\* f"{x:.4f}" of a degree
Format4f(x) ==
    LET m == IF x < 0 THEN 0 - x ELSE x
    IN  (IF x < 0 THEN <<"-">> ELSE <<>>)
        \o NatDigits(m \div DegreeScale) \o <<".">>
        \o ZeroPad(NatDigits(m % DegreeScale), DegreeDigits)

\* code-point order of the characters city names are made of
CharOrder == <<" ">> \o DigitChars \o UpperChars \o LowerChars

\* a < b, on str
RECURSIVE StrLess(_, _)
StrLess(a, b) ==
    IF b = <<>> THEN FALSE
    ELSE IF a = <<>> THEN TRUE
    ELSE IF Head(a) = Head(b) THEN StrLess(Tail(a), Tail(b))
    ELSE IndexIn(Head(a), CharOrder) < IndexIn(Head(b), CharOrder)

\* sorted(S), on a set of str
RECURSIVE sorted(_)
sorted(S) ==
    IF S = {} THEN <<>>
    ELSE LET least == CHOOSE x \in S : \A y \in S \ {x} : StrLess(x, y)
         IN  <<least>> \o sorted(S \ {least})

----------------------------------------------------------------------------
(* Configuration constants, main.py:12-57 *)

DEFAULT_MAX_DISPLAY == 20

RESTAURANT_TYPES == {"restaurant", "meal_delivery", "meal_takeaway"}

EXCLUDE_TYPES ==
    {"lodging", "hotel", "motel", "gas_station", "grocery_or_supermarket", "convenience_store"}

\* name -> (lat, lng), degrees in 1/10000
CITY_COORDINATES ==
       (<<"s","e","a","t","t","l","e">> :> <<476062, -1223321>>)   \* seattle
    @@ (<<"s","a","n"," ","f","r","a","n","c","i","s","c","o">> :> <<377749, -1224194>>)   \* san francisco
    @@ (<<"l","o","s"," ","a","n","g","e","l","e","s">> :> <<340522, -1182437>>)   \* los angeles
    @@ (<<"n","e","w"," ","y","o","r","k">> :> <<407128, -740060>>)   \* new york
    @@ (<<"c","h","i","c","a","g","o">> :> <<418781, -876298>>)   \* chicago
    @@ (<<"a","u","s","t","i","n">> :> <<302672, -977431>>)   \* austin
    @@ (<<"p","o","r","t","l","a","n","d">> :> <<455152, -1226784>>)   \* portland
    @@ (<<"m","i","a","m","i">> :> <<257617, -801918>>)   \* miami
    @@ (<<"b","o","s","t","o","n">> :> <<423601, -710589>>)   \* boston
    @@ (<<"d","e","n","v","e","r">> :> <<397392, -1049903>>)   \* denver
    @@ (<<"a","t","l","a","n","t","a">> :> <<337490, -843880>>)   \* atlanta
    @@ (<<"d","a","l","l","a","s">> :> <<327767, -967970>>)   \* dallas
    @@ (<<"h","o","u","s","t","o","n">> :> <<297604, -953698>>)   \* houston
    @@ (<<"p","h","i","l","a","d","e","l","p","h","i","a">> :> <<399526, -751652>>)   \* philadelphia
    @@ (<<"p","h","o","e","n","i","x">> :> <<334484, -1120740>>)   \* phoenix
    @@ (<<"s","a","n"," ","d","i","e","g","o">> :> <<327157, -1171611>>)   \* san diego
    @@ (<<"w","a","s","h","i","n","g","t","o","n"," ","d","c">> :> <<389072, -770369>>)   \* washington dc
    @@ (<<"l","a","s"," ","v","e","g","a","s">> :> <<361699, -1151398>>)   \* las vegas
    @@ (<<"n","a","s","h","v","i","l","l","e">> :> <<361627, -867816>>)   \* nashville
    @@ (<<"n","e","w"," ","o","r","l","e","a","n","s">> :> <<299511, -900715>>)   \* new orleans

Seattle == <<"s","e","a","t","t","l","e">>

----------------------------------------------------------------------------
(* get_location, main.py:60-98. The result is [ok |-> TRUE, value |-> (lat, lng, name)]  *)
(* or, where the code prints and calls sys.exit(1), [ok |-> FALSE, out |-> the prints].  *)

\* the coords branch's try block, main.py:72-80: a ValueError, or the location
ParseCoords(coords) ==
    LET parts == split(coords, ",")
    IN  IF Len(parts) # 2
        THEN [ok |-> FALSE, error |-> "Coordinates must be in format: lat,lng"]
        ELSE IF ~IsFloatLiteral(parts[1]) \/ ~IsFloatLiteral(parts[2])
        THEN [ok |-> FALSE, error |-> "could not convert string to float"]
        ELSE LET lat == float(strip(parts[1]))
                 lng == float(strip(parts[2]))
             IN  IF ~(-90 * DegreeScale <= lat /\ lat <= 90 * DegreeScale)
                    \/ ~(-180 * DegreeScale <= lng /\ lng <= 180 * DegreeScale)
                 THEN [ok |-> FALSE, error |-> "Invalid coordinate range"]
                 ELSE [ok |-> TRUE,
                       value |-> [lat |-> lat, lng |-> lng,
                                  name |-> <<"(">> \o Format4f(lat) \o <<",", " ">>
                                           \o Format4f(lng) \o <<")">>]]

\* the test that picks the coords branch, main.py:71
CoordsGiven(coords) == Truthy(coords)

\* the test that picks the city branch, main.py:85
CityGiven(city) == Truthy(city)

get_location(city, coords) ==
    IF CoordsGiven(coords)
    THEN LET r == ParseCoords(coords)
         IN  IF r.ok THEN r
             ELSE [ok |-> FALSE, out |-> <<[ev |-> "coords_error", error |-> r.error]>>]
    ELSE IF CityGiven(city)
    THEN LET city_lower == lower(city)
         IN  IF city_lower \notin DOMAIN CITY_COORDINATES
             THEN [ok |-> FALSE,
                   out |-> <<[ev |-> "city_not_found", city |-> city,
                              available |-> sorted(DOMAIN CITY_COORDINATES)]>>]
             ELSE [ok |-> TRUE,
                   value |-> [lat |-> CITY_COORDINATES[city_lower][1],
                              lng |-> CITY_COORDINATES[city_lower][2],
                              name |-> title(city)]]
    ELSE [ok |-> TRUE,
          value |-> [lat |-> CITY_COORDINATES[Seattle][1],
                     lng |-> CITY_COORDINATES[Seattle][2],
                     name |-> <<"S","e","a","t","t","l","e">>]]

----------------------------------------------------------------------------
(* miles_to_meters, main.py:101-103: int(miles * 1609.34), miles in 1/100. int()      *)
(* truncates toward zero.                                                              *)

MetersPerMile100 == 160934

miles_to_meters(miles) ==
    IF miles >= 0 THEN (miles * MetersPerMile100) \div 10000
    ELSE 0 - (((0 - miles) * MetersPerMile100) \div 10000)

----------------------------------------------------------------------------
(* is_true_restaurant, main.py:106-122 *)

restaurant_keywords == <<
    <<"r","e","s","t","a","u","r","a","n","t">>,
    <<"g","r","i","l","l">>,
    <<"k","i","t","c","h","e","n">>,
    <<"b","i","s","t","r","o">>,
    <<"c","a","f","e">>,
    <<"d","i","n","e","r">>,
    <<"e","a","t","e","r","y">>,
    <<"s","t","e","a","k","h","o","u","s","e">>,
    <<"p","i","z","z","e","r","i","a">>,
    <<"s","u","s","h","i">>>>

\* is_true_restaurant with the allow test before the deny test
is_true_restaurantAllowFirst(p) ==
    LET place_types == Range(Get(p, "types", <<>>))
    IN  IF place_types \cap RESTAURANT_TYPES # {} THEN TRUE
        ELSE IF place_types \cap EXCLUDE_TYPES # {} THEN FALSE
        ELSE LET name_lower == lower(Get(p, "name", <<>>))
             IN  \E i \in 1..Len(restaurant_keywords) :
                     Contains(restaurant_keywords[i], name_lower)

is_true_restaurant(p) ==
    LET place_types == Range(Get(p, "types", <<>>))
    IN  IF place_types \cap EXCLUDE_TYPES # {} THEN FALSE
        ELSE IF place_types \cap RESTAURANT_TYPES # {} THEN TRUE
        ELSE LET name_lower == lower(Get(p, "name", <<>>))
             IN  \E i \in 1..Len(restaurant_keywords) :
                     Contains(restaurant_keywords[i], name_lower)

----------------------------------------------------------------------------
(* parse_arguments, main.py:258-332. The namespace holds the values argparse has       *)
(* converted: city and coords a str or None, radius in 1/100 mile, rating in 1/10,     *)
(* reviews and limit integers. The result is the message of parser.error, "" for none. *)

UsageError(a) ==
    IF a.city # None /\ a.coords # None
    THEN "argument --coords: not allowed with argument --city"        \* main.py:288-292
    ELSE IF ~(10 <= a.radius /\ a.radius <= 3100)
    THEN "Radius must be between 0.1 and 31 miles"                    \* main.py:323-324
    ELSE IF ~(0 <= a.rating /\ a.rating <= 50)
    THEN "Rating must be between 0 and 5"                             \* main.py:326-327
    ELSE IF a.reviews < 0
    THEN "Review count must be non-negative"                          \* main.py:329-330
    ELSE ""

----------------------------------------------------------------------------
(* fetch_all_restaurants, main.py:125-187 *)

RadiusCap == 50000

\* RequestRadius without the cap of main.py:137-138
RequestRadiusUncapped(radius_miles) == miles_to_meters(radius_miles)

\* main.py:135-139: the radius of the request, and whether the note is printed
RadiusCapped(radius_miles) == miles_to_meters(radius_miles) > RadiusCap

RequestRadius(radius_miles) ==
    IF RadiusCapped(radius_miles) THEN RadiusCap ELSE miles_to_meters(radius_miles)

PageCap == 3

PageDelay == 2

RequestTimeout == 10

\* LoopCondition, off by one
LoopConditionInclusive(count) == count <= PageCap

\* the while condition, main.py:141
LoopCondition(count) == count < PageCap

\* main.py:142-152
RequestParams(count, lat, lng, radius, token, api_key) ==
    LET params == [key |-> api_key, type |-> "restaurant", keyword |-> "restaurant"]
    IN  IF count = 0
        THEN params @@ [location |-> <<lat, lng>>, radius |-> radius]
        ELSE params @@ [pagetoken |-> token]

\* BeforeRequest without the sleep of main.py:154
BeforeRequestNoDelay(count) ==
    IF count = 0 THEN <<>> ELSE <<[ev |-> "print_fetching", page |-> count + 1]>>

\* what precedes the request of a later page, main.py:153-154
BeforeRequest(count) ==
    IF count = 0 THEN <<>>
    ELSE <<[ev |-> "print_fetching", page |-> count + 1],
           [ev |-> "sleep", seconds |-> PageDelay]>>

\* StatusAccepted without the status check
StatusAcceptedAlways(data) == TRUE

\* main.py:164
StatusAccepted(data) == "status" \in DOMAIN data /\ data.status \in {"OK", "ZERO_RESULTS"}

\* main.py:173
TrueRestaurants(results) == SelectSeq(results, is_true_restaurant)

\* main.py:182: not next_page_token
TokenMissing(token) == ~Truthy(token)

----------------------------------------------------------------------------
(* calculate_score and filter_and_rank_restaurants, main.py:190-208. A score is in     *)
(* 1/100: the rating in 1/10, squared, times log10 of the review count. Log10 is exact *)
(* on powers of ten, and the review counts of the model are 0 and powers of ten.       *)

RECURSIVE Log10(_)
Log10(n) == IF n < 10 THEN 0 ELSE 1 + Log10(n \div 10)

calculate_score(restaurant) ==
    LET rating == Get(restaurant, "rating", 0)
        reviews == Get(restaurant, "user_ratings_total", 1)
    IN  (rating * rating) * Log10(Max(reviews, 1))

\* main.py:205-206
Kept(r, min_rating, min_reviews) ==
    Get(r, "rating", 0) >= min_rating /\ Get(r, "user_ratings_total", 0) >= min_reviews

\* InsertByScore of a sort that is not stable: x enters before the items of its own score
InsertByScoreTiesFirst(s, x) ==
    LET k == Cardinality({i \in 1..Len(s) : calculate_score(s[i]) > calculate_score(x)})
    IN  SubSeq(s, 1, k) \o <<x>> \o SubSeq(s, k + 1, Len(s))

\* One step of sorted(..., key=calculate_score, reverse=True), main.py:208: x enters a
\* list already in descending order behind every item whose score is at least its own,
\* which is where a stable sort leaves it.
InsertByScore(s, x) ==
    LET k == Cardinality({i \in 1..Len(s) : calculate_score(s[i]) >= calculate_score(x)})
    IN  SubSeq(s, 1, k) \o <<x>> \o SubSeq(s, k + 1, Len(s))

RECURSIVE SortedByScore(_)
SortedByScore(s) ==
    IF s = <<>> THEN <<>>
    ELSE InsertByScore(SortedByScore(SubSeq(s, 1, Len(s) - 1)), s[Len(s)])

filter_and_rank_restaurants(restaurants, min_rating, min_reviews) ==
    LET keep(r) == Kept(r, min_rating, min_reviews)
    IN  SortedByScore(SelectSeq(restaurants, keep))

----------------------------------------------------------------------------
(* display_results, main.py:211-255: the lines it prints, as events; limit is the      *)
(* global MAX_DISPLAY it reads. A rating is in 1/10, so the one-decimal print of       *)
(* main.py:231 shows it as it is. The Type and Location lines of an entry              *)
(* (main.py:246-254) are not in the event.                                             *)

\* restaurants[:n], main.py:237
SliceTo(s, n) ==
    IF n >= 0 THEN SubSeq(s, 1, Min(n, Len(s))) ELSE SubSeq(s, 1, Max(Len(s) + n, 0))

\* Guidance without the cap of the radius at 31 miles
GuidanceUncapped(radius_miles, min_rating, min_reviews) ==
    [ev |-> "guidance",
     reviews |-> min_reviews \div 2,
     rating |-> Max(min_rating - 2, 30),
     radius |-> radius_miles + 1000]

\* main.py:230-232
Guidance(radius_miles, min_rating, min_reviews) ==
    [ev |-> "guidance",
     reviews |-> min_reviews \div 2,
     rating |-> Max(min_rating - 2, 30),
     radius |-> Min(radius_miles + 1000, 3100)]

\* NoResults of a test for None, which a list never is
NoResultsIsNone(restaurants) == FALSE

\* main.py:227: not restaurants
NoResults(restaurants) == restaurants = <<>>

display_results(restaurants, name, radius_miles, min_rating, min_reviews, fetched, limit) ==
    LET header == [ev |-> "header", location |-> name, radius |-> radius_miles,
                   rating |-> min_rating, reviews |-> min_reviews,
                   fetched |-> fetched, matched |-> Len(restaurants)]
        shown == SliceTo(restaurants, limit)
    IN  IF NoResults(restaurants)
        THEN <<header, Guidance(radius_miles, min_rating, min_reviews)>>
        ELSE <<header, [ev |-> "top", count |-> Min(Len(restaurants), limit)]>>
             \o [i \in 1..Len(shown) |-> [ev |-> "entry", idx |-> i, restaurant |-> shown[i]]]

----------------------------------------------------------------------------
(* The inputs of the model *)

ApiKey == <<"K","E","Y">>

\* --city values: a known city, one in another case, one of two words, an unknown one, ""
CityInputs ==
    {None, <<>>, <<"A","u","s","t","i","n">>, <<"n","e","w"," ","y","o","r","k">>,
     <<"A","t","l","a","n","t","i","s">>}

\* --coords values
CoordsInputs ==
    {None, <<>>,
     <<"4","7",".","6",",","-","1","2","2",".","3">>,        \* "47.6,-122.3"
     <<" ","9","0"," ",","," ","-","1","8","0",".","0">>,   \* " 90 , -180.0"
     <<"2","0","0",",","5","0">>,                           \* "200,50"
     <<"4","7",".","6",",","-","1","2","2",".","3",",","x">>,    \* "47.6,-122.3,x"
     <<"9","0",".","0","0","0","1",",","0">>,             \* "90.0001,0"
     <<"-","9","1",",","0">>,                               \* "-91,0"
     <<"0",",","1","8","0",".","5">>,                       \* "0,180.5"
     <<"0",",","-","1","8","1">>,                           \* "0,-181"
     <<"a","b","c">>,                                       \* "abc"
     <<"4","x",",","5">>,                                   \* "4x,5"
     <<"4","5",",">>,                                       \* "45,"
     <<"1",".","2",".","3",",","4">>}                        \* "1.2.3,4"

\* --radius values, in 1/100 mile: 0.05, 0.1, 31 and 31.01
RadiusInputs == {5, 10, 3100, 3101}

\* --rating values, in 1/10
RatingInputs == {25, 47, 51}

\* --reviews values
ReviewsInputs == {-1, 0, 300}

\* --limit values
LimitInputs == {-1, 0, 2, DEFAULT_MAX_DISPLAY}

\* the defaults of main.py:12-15, 297-317
DefaultArgs ==
    [api_key |-> ApiKey, city |-> None, coords |-> None,
     radius |-> 2000, rating |-> 47, reviews |-> 300, limit |-> DEFAULT_MAX_DISPLAY]

MainArgs ==
    [api_key : {ApiKey}, city : CityInputs, coords : CoordsInputs, radius : RadiusInputs,
     rating : RatingInputs, reviews : ReviewsInputs, limit : LimitInputs]

\* places of the upstream's pages
CafePlace ==
    [name |-> <<"M","y"," ","C","a","f","e">>, types |-> <<"restaurant", "food">>,
     rating |-> 47, user_ratings_total |-> 1000]

InnPlace ==
    [name |-> <<"I","n","n"," ","G","r","i","l","l">>, types |-> <<"lodging", "restaurant">>,
     rating |-> 45, user_ratings_total |-> 100]

SushiPlace ==
    [name |-> <<"S","U","S","H","I","y","a">>, types |-> <<"bar">>,
     rating |-> 40, user_ratings_total |-> 10]

DinnerPlace ==
    [name |-> <<"D","i","n","n","e","r">>, types |-> <<"food">>,
     rating |-> 50, user_ratings_total |-> 10000]

BistroPlace ==
    [name |-> <<"B","i","s","t","r","o">>, rating |-> 20, user_ratings_total |-> 10000]

BarePlace ==
    [name |-> <<"c","a","f","e">>]

PageA == <<CafePlace, InnPlace, SushiPlace>>

PageB == <<BistroPlace, DinnerPlace, BarePlace>>

TokenA == <<"t","A">>

TokenB == <<"t","B">>

\* What a request can come back with: a requests.RequestException (connection error,
\* timeout, or the HTTP error status raise_for_status turns into one), or the JSON body.
Outcomes ==
    {[kind |-> "error"]}
    \cup {[kind |-> "json", data |-> d] :
            d \in {[status |-> "OK", results |-> p] : p \in {PageA, PageB}}
             \cup {[status |-> "OK", results |-> p, next_page_token |-> k] :
                      p \in {PageA, PageB}, k \in {<<>>, TokenA, TokenB}}
             \cup {[status |-> "OK", next_page_token |-> TokenA],
                   [status |-> "ZERO_RESULTS", results |-> <<>>],
                   [status |-> "REQUEST_DENIED", results |-> PageA,
                    next_page_token |-> TokenA, error_message |-> "denied"],
                   [results |-> PageB, next_page_token |-> TokenB]}}

\* radius_miles of a direct call of fetch_all_restaurants, in 1/100 mile
FetchRadii == {-100, 10, 2000, 3100, 3101, 3105, 3106, 3107, 3200, 5000}

\* the lists and thresholds of a direct call of filter_and_rank_restaurants
MaxListLen == 4

RankPlaces ==
    {ra @@ re : ra \in {<<>>} \cup {[rating |-> x] : x \in {20, 40}},
                re \in {<<>>} \cup {[user_ratings_total |-> n] : n \in {10, 10000}}}

RankLists == UNION {[1..n -> RankPlaces] : n \in 0..MaxListLen}

RankRatings == {0, 20}

RankReviews == {0, 10}

\* the places of a direct call of is_true_restaurant
RECURSIVE ListOf(_)
ListOf(set) ==
    IF set = {} THEN <<>>
    ELSE LET x == CHOOSE y \in set : TRUE IN <<x>> \o ListOf(set \ {x})

TypeTags == EXCLUDE_TYPES \cup RESTAURANT_TYPES \cup {"bar", "food"}

PlaceNames ==
    {<<>>, <<"M","y"," ","C","a","f","e">>, <<"S","U","S","H","I","y","a">>,
     <<"D","i","n","n","e","r">>, <<"I","n","n">>, <<"B","I","S","T","R","O">>}

PlaceInputs ==
    {n @@ ty : n \in {<<>>} \cup {[name |-> x] : x \in PlaceNames},
               ty \in {<<>>} \cup {[types |-> ListOf(tags)] : tags \in SUBSET TypeTags}}

----------------------------------------------------------------------------
(* The state machine *)

NoLocation == [lat |-> 0, lng |-> 0, name |-> <<>>]

\* the state before pc0, with nothing run yet
Start(pc0, a) ==
    /\ pc = pc0
    /\ args = a
    /\ exit_code = 0
    /\ location = NoLocation
    /\ radius_meters = 0
    /\ page_count = 0
    /\ next_page_token = None
    /\ all_restaurants = <<>>
    /\ filtered_restaurants = <<>>
    /\ MAX_DISPLAY = DEFAULT_MAX_DISPLAY
    /\ trace = <<>>
    /\ place = <<>>
    /\ verdict = FALSE

\* main.py:337, parse_arguments: parser.error prints the usage and exits with status 2
ParseArguments ==
    /\ pc = "parse"
    /\ LET message == UsageError(args)
       IN  IF message # ""
           THEN /\ trace' = Append(trace, [ev |-> "usage_error", message |-> message])
                /\ pc' = "exit"
                /\ exit_code' = 2
           ELSE /\ pc' = "locate"
                /\ UNCHANGED <<trace, exit_code>>
    /\ UNCHANGED <<args, location, radius_meters, page_count, next_page_token,
                   all_restaurants, filtered_restaurants, MAX_DISPLAY, place, verdict>>

\* main.py:340-345, get_location and the prints up to the fetch
GetLocation ==
    /\ pc = "locate"
    /\ LET r == get_location(args.city, args.coords)
       IN  IF r.ok
           THEN /\ location' = r.value
                /\ trace' = trace \o <<[ev |-> "print_location", location |-> r.value],
                                       [ev |-> "print_searching", radius |-> args.radius],
                                       [ev |-> "print_fetching", page |-> 1]>>
                /\ pc' = "fetch"
                /\ UNCHANGED exit_code
           ELSE /\ trace' = trace \o r.out
                /\ pc' = "exit"
                /\ exit_code' = 1
                /\ UNCHANGED location
    /\ UNCHANGED <<args, radius_meters, page_count, next_page_token,
                   all_restaurants, filtered_restaurants, MAX_DISPLAY, place, verdict>>

\* main.py:132-139, the entry of fetch_all_restaurants
FetchStart ==
    /\ pc = "fetch"
    /\ all_restaurants' = <<>>
    /\ next_page_token' = None
    /\ page_count' = 0
    /\ radius_meters' = RequestRadius(args.radius)
    /\ trace' = IF RadiusCapped(args.radius)
                THEN Append(trace, [ev |-> "print_radius_capped"])
                ELSE trace
    /\ pc' = "loop"
    /\ UNCHANGED <<args, exit_code, location, filtered_restaurants, MAX_DISPLAY,
                   place, verdict>>

\* main.py:141-185, one pass of the loop, for each thing the request can come back with
FetchPage ==
    /\ pc = "loop"
    /\ LoopCondition(page_count)
    /\ \E outcome \in Outcomes :
         LET params == RequestParams(page_count, location.lat, location.lng,
                                     radius_meters, next_page_token, args.api_key)
             asked == trace \o BeforeRequest(page_count)
                      \o <<[ev |-> "request", params |-> params, timeout |-> RequestTimeout],
                           [ev |-> "response", outcome |-> outcome]>>
         IN  IF outcome.kind = "error"
             THEN /\ trace' = Append(asked, [ev |-> "print_request_failed"])
                  /\ pc' = "rank"
                  /\ UNCHANGED <<all_restaurants, next_page_token, page_count>>
             ELSE IF ~StatusAccepted(outcome.data)
             THEN /\ trace' = asked
                        \o <<[ev |-> "print_warning",
                              status |-> Get(outcome.data, "status", "None")]>>
                        \o (IF Get(outcome.data, "error_message", "") # ""
                            THEN <<[ev |-> "print_details",
                                    message |-> outcome.data.error_message]>>
                            ELSE <<>>)
                  /\ pc' = "rank"
                  /\ UNCHANGED <<all_restaurants, next_page_token, page_count>>
             ELSE LET results == Get(outcome.data, "results", <<>>)
                      true_restaurants == TrueRestaurants(results)
                      token == Get(outcome.data, "next_page_token", None)
                  IN  /\ trace' = IF Len(true_restaurants) < Len(results)
                                  THEN Append(asked,
                                         [ev |-> "print_filtered_out",
                                          count |-> Len(results) - Len(true_restaurants)])
                                  ELSE asked
                      /\ all_restaurants' = all_restaurants \o true_restaurants
                      /\ next_page_token' = token
                      /\ IF TokenMissing(token)
                         THEN pc' = "rank" /\ UNCHANGED page_count
                         ELSE pc' = "loop" /\ page_count' = page_count + 1
    /\ UNCHANGED <<args, exit_code, location, radius_meters, filtered_restaurants,
                   MAX_DISPLAY, place, verdict>>

\* main.py:141, 187: the loop ends at the page cap and the list is returned
FetchReturn ==
    /\ pc = "loop"
    /\ ~LoopCondition(page_count)
    /\ pc' = "rank"
    /\ UNCHANGED <<args, exit_code, location, radius_meters, page_count, next_page_token,
                   all_restaurants, filtered_restaurants, MAX_DISPLAY, trace, place,
                   verdict>>

\* main.py:347-352
FilterAndRank ==
    /\ pc = "rank"
    /\ filtered_restaurants' =
           filter_and_rank_restaurants(all_restaurants, args.rating, args.reviews)
    /\ trace' = Append(trace, [ev |-> "print_retrieved", count |-> Len(all_restaurants)])
    /\ pc' = "display"
    /\ UNCHANGED <<args, exit_code, location, radius_meters, page_count, next_page_token,
                   all_restaurants, MAX_DISPLAY, place, verdict>>

\* main.py:355-361, and the return of main: the process ends with status 0
DisplayResults ==
    /\ pc = "display"
    /\ MAX_DISPLAY' = args.limit
    /\ trace' = trace \o display_results(filtered_restaurants, location.name, args.radius,
                                         args.rating, args.reviews, Len(all_restaurants),
                                         MAX_DISPLAY')
    /\ pc' = "done"
    /\ exit_code' = 0
    /\ UNCHANGED <<args, location, radius_meters, page_count, next_page_token,
                   all_restaurants, filtered_restaurants, place, verdict>>

\* a direct call of is_true_restaurant, main.py:106-122
Classify ==
    /\ pc = "classify"
    /\ verdict' = is_true_restaurant(place)
    /\ pc' = "classified"
    /\ UNCHANGED <<args, exit_code, location, radius_meters, page_count, next_page_token,
                   all_restaurants, filtered_restaurants, MAX_DISPLAY, trace, place>>

\* a run of main()
Init == \E a \in MainArgs : Start("parse", a)

Next ==
    \/ ParseArguments
    \/ GetLocation
    \/ FetchStart
    \/ FetchPage
    \/ FetchReturn
    \/ FilterAndRank
    \/ DisplayResults

Spec == Init /\ [][Next]_vars

\* a direct call of fetch_all_restaurants, at lat = lng = 0
InitFetch ==
    \E r \in FetchRadii :
        Start("fetch", [DefaultArgs EXCEPT !.radius = r])

NextFetch == FetchStart \/ FetchPage \/ FetchReturn

SpecFetch == InitFetch /\ [][NextFetch]_vars

\* a direct call of filter_and_rank_restaurants
InitRank ==
    \E l \in RankLists, ra \in RankRatings, re \in RankReviews :
        /\ pc = "rank"
        /\ args = [DefaultArgs EXCEPT !.rating = ra, !.reviews = re]
        /\ all_restaurants = l
        /\ exit_code = 0
        /\ location = NoLocation
        /\ radius_meters = 0
        /\ page_count = 0
        /\ next_page_token = None
        /\ filtered_restaurants = <<>>
        /\ MAX_DISPLAY = DEFAULT_MAX_DISPLAY
        /\ trace = <<>>
        /\ place = <<>>
        /\ verdict = FALSE

NextRank == FilterAndRank

SpecRank == InitRank /\ [][NextRank]_vars

\* a direct call of is_true_restaurant
InitClassify ==
    \E p \in PlaceInputs :
        /\ pc = "classify"
        /\ place = p
        /\ args = DefaultArgs
        /\ exit_code = 0
        /\ location = NoLocation
        /\ radius_meters = 0
        /\ page_count = 0
        /\ next_page_token = None
        /\ all_restaurants = <<>>
        /\ filtered_restaurants = <<>>
        /\ MAX_DISPLAY = DEFAULT_MAX_DISPLAY
        /\ trace = <<>>
        /\ verdict = FALSE

NextClassify == Classify

SpecClassify == InitClassify /\ [][NextClassify]_vars

----------------------------------------------------------------------------
(* What the claims read off a state *)

IsRequest(e) == e.ev = "request"

IsResponse(e) == e.ev = "response"

IsEntry(e) == e.ev = "entry"

IsGuidance(e) == e.ev = "guidance"

IsCapNote(e) == e.ev = "print_radius_capped"

Requests == SelectSeq(trace, IsRequest)

Responses == SelectSeq(trace, IsResponse)

Entries == SelectSeq(trace, IsEntry)

GuidanceShown == SelectSeq(trace, IsGuidance)

\* the positions in the trace of the events of one kind
Positions(kind) == {i \in 1..Len(trace) : trace[i].ev = kind}

\* a transport failure, or a status other than "OK" and "ZERO_RESULTS"
Failed(outcome) ==
    \/ outcome.kind = "error"
    \/ "status" \notin DOMAIN outcome.data
    \/ outcome.data.status \notin {"OK", "ZERO_RESULTS"}

\* the continuation token of a response, << >> when it carries none
TokenOf(outcome) ==
    IF Failed(outcome) \/ "next_page_token" \notin DOMAIN outcome.data
    THEN <<>>
    ELSE outcome.data.next_page_token

FetchOver == pc \in {"rank", "display", "done"}

----------------------------------------------------------------------------
\* C1: in a run of fetch_all_restaurants, whatever the upstream answers (a continuation
\* token with every page included), at most 3 page requests are issued.
C1_AtMostThreeRequests == Len(Requests) <= 3

\* three pages were fetched, each answered with a continuation token
C1_Witness ==
    /\ FetchOver
    /\ Len(Requests) = 3
    /\ \A k \in 1..3 : TokenOf(Responses[k].outcome) # <<>>

----------------------------------------------------------------------------
\* the classifier-passing items of the pages before page k, in page order
RECURSIVE PassingBefore(_)
PassingBefore(k) ==
    IF k <= 1 THEN <<>>
    ELSE PassingBefore(k - 1)
         \o SelectSeq(Get(Responses[k - 1].outcome.data, "results", <<>>), is_true_restaurant)

\* C2: when the request of page k fails in transport or comes back with a status other
\* than "OK"/"ZERO_RESULTS", nothing is raised: the loop halts with no further request
\* and returns exactly the classifier-passing items of pages 1..k-1, in page order.
C2_FailureStopsWithPartialResults ==
    \A k \in 1..Len(Responses) :
        Failed(Responses[k].outcome) =>
            /\ k = Len(Responses)
            /\ Len(Requests) = k
            /\ FetchOver
            /\ all_restaurants = PassingBefore(k)

\* page 2 was refused after a page 1 that left restaurants, and the run reached its end
C2_Witness ==
    /\ pc = "done"
    /\ Len(Responses) = 2
    /\ Failed(Responses[2].outcome)
    /\ Responses[2].outcome.kind = "json"
    /\ Get(Responses[2].outcome.data, "results", <<>>) # <<>>
    /\ all_restaurants # <<>>

----------------------------------------------------------------------------
RatingOf(r) == IF "rating" \in DOMAIN r THEN r.rating ELSE 0

ReviewsOf(r) == IF "user_ratings_total" \in DOMAIN r THEN r.user_ratings_total ELSE 0

Scores(s) == {calculate_score(s[i]) : i \in 1..Len(s)}

\* the items of s with score v, in the order of s
WithScore(s, v) ==
    LET same(r) == calculate_score(r) = v
    IN  SelectSeq(s, same)

\* C3: filter_and_rank_restaurants returns exactly the input items with
\* rating >= minRating and review_count >= minReviews (a missing one counted as 0), in
\* descending order of score, items of equal score in their input order.
C3_RankedExactlyAndStably ==
    pc = "display" =>
        LET passes(r) == RatingOf(r) >= args.rating /\ ReviewsOf(r) >= args.reviews
            kept == SelectSeq(all_restaurants, passes)
            out == filtered_restaurants
        IN  /\ Len(out) = Len(kept)
            /\ \A i, j \in 1..Len(out) :
                   i < j => calculate_score(out[i]) >= calculate_score(out[j])
            /\ \A v \in Scores(kept) \cup Scores(out) : WithScore(out, v) = WithScore(kept, v)

\* a ranking that dropped an item, moved the last item to the front and kept two
\* different items of equal, non-zero score
C3_Witness ==
    /\ pc = "display"
    /\ Len(filtered_restaurants) < Len(all_restaurants)
    /\ Len(filtered_restaurants) > 2
    /\ filtered_restaurants[1] = all_restaurants[Len(all_restaurants)]
    /\ calculate_score(filtered_restaurants[1]) > calculate_score(filtered_restaurants[2])
    /\ \E i \in 1..(Len(filtered_restaurants) - 1) :
           /\ filtered_restaurants[i] # filtered_restaurants[i + 1]
           /\ calculate_score(filtered_restaurants[i]) > 0
           /\ calculate_score(filtered_restaurants[i])
                  = calculate_score(filtered_restaurants[i + 1])

----------------------------------------------------------------------------
\* the verdict the specification's three rules give
ExpectedVerdict(p) ==
    LET tags == IF "types" \in DOMAIN p THEN Range(p.types) ELSE {}
        name == IF "name" \in DOMAIN p THEN p.name ELSE <<>>
        deny == {"lodging", "hotel", "motel", "gas_station", "grocery_or_supermarket",
                 "convenience_store"}
        allow == {"restaurant", "meal_delivery", "meal_takeaway"}
    IN  IF tags \cap deny # {} THEN FALSE
        ELSE IF tags \cap allow # {} THEN TRUE
        ELSE \E kw \in Range(restaurant_keywords) : Contains(kw, lower(name))

\* C4: is_true_restaurant is false whenever the type tags meet the deny set; otherwise
\* true when they meet the allow set; otherwise true iff the lower-cased name contains
\* one of the keywords. The call does not modify the item.
C4_ClassifierRules ==
    /\ [](pc = "classified" => verdict = ExpectedVerdict(place))
    /\ [][place' = place]_vars

\* an item tagged lodging and restaurant, with a keyword in its name, was refused
C4_Witness ==
    /\ pc = "classified"
    /\ {"lodging", "restaurant"} \subseteq Range(Get(place, "types", <<>>))
    /\ Contains(<<"c","a","f","e">>, lower(Get(place, "name", <<>>)))
    /\ verdict = FALSE

----------------------------------------------------------------------------
CapNotes == SelectSeq(trace, IsCapNote)

\* every radius that was sent is at most 50000 meters
SentRadiusBounded ==
    \A k \in 1..Len(Requests) :
        "radius" \in DOMAIN Requests[k].params => Requests[k].params.radius <= 50000

\* C5 as stated: for every radius above 31 miles, the page-1 request carries exactly
\* 50000 meters and the clamp notice is printed exactly once; no radius sent exceeds
\* 50000 meters.
C5_ClampAbove31Miles ==
    Len(Requests) >= 1 =>
        /\ args.radius > 3100 =>
               Requests[1].params.radius = 50000 /\ Len(CapNotes) = 1
        /\ SentRadiusBounded

\* C5 as amended: for every radius whose conversion int(miles * 1609.34) exceeds 50000
\* meters, the page-1 request carries exactly 50000 meters and the clamp notice is
\* printed exactly once; no radius sent exceeds 50000 meters.
C5_ClampAbove50000Meters ==
    Len(Requests) >= 1 =>
        /\ (args.radius * 160934) \div 10000 > 50000 =>
               Requests[1].params.radius = 50000 /\ Len(CapNotes) = 1
        /\ SentRadiusBounded

\* a run with a radius of 32 miles ended after three pages, clamped, the note printed once
C5_Witness ==
    /\ pc = "rank"
    /\ args.radius = 3200
    /\ Len(Requests) = 3
    /\ Requests[1].params.radius = 50000
    /\ Len(CapNotes) = 1

----------------------------------------------------------------------------
\* C6: when the page-1 request fails in transport, the run goes on through ranking and
\* presentation: the fetched and the ranked list are empty, the presenter prints the
\* "no results" guidance, and the process does not end in an error exit.
C6_TransportFailureOnPageOne ==
    (Len(Responses) >= 1 /\ Responses[1].outcome.kind = "error") =>
        /\ FetchOver
        /\ pc # "done" => ENABLED Next
        /\ all_restaurants = <<>>
        /\ filtered_restaurants = <<>>
        /\ pc = "done" =>
               /\ exit_code = 0
               /\ Len(GuidanceShown) = 1
               /\ Entries = <<>>

\* the run ended after a transport failure on page 1
C6_Witness ==
    /\ pc = "done"
    /\ Len(Responses) = 1
    /\ Responses[1].outcome.kind = "error"
    /\ Len(GuidanceShown) = 1

----------------------------------------------------------------------------
\* C7: for every --limit the validation accepts and every non-empty ranked list, the
\* presenter lists exactly min(len(ranked), limit) entries, numbered from 1, from the
\* front of the ranked list; a --limit below 0 is rejected with a usage error and a
\* non-zero exit before any fetch.
C7_LimitValidatedAndRespected ==
    /\ (args.limit < 0 /\ pc # "parse") =>
           pc = "exit" /\ exit_code # 0 /\ Requests = <<>>
    /\ (pc = "done" /\ filtered_restaurants # <<>>) =>
           /\ Len(Entries) = Min(Len(filtered_restaurants), args.limit)
           /\ \A i \in 1..Len(Entries) :
                  Entries[i].idx = i /\ Entries[i].restaurant = filtered_restaurants[i]

----------------------------------------------------------------------------
\* exactly two comma-separated numeric tokens, the first in [-90, 90], the second in
\* [-180, 180]
WellFormedCoords(c) ==
    LET tokens == split(c, ",")
    IN  /\ Len(tokens) = 2
        /\ IsFloatLiteral(tokens[1])
        /\ IsFloatLiteral(tokens[2])
        /\ float(tokens[1]) >= -900000 /\ float(tokens[1]) <= 900000
        /\ float(tokens[2]) >= -1800000 /\ float(tokens[2]) <= 1800000

LocationInRange ==
    /\ location.lat >= -900000 /\ location.lat <= 900000
    /\ location.lng >= -1800000 /\ location.lng <= 1800000

\* the run ended with InvalidInput: a non-zero exit, and no page request
EndedInvalidInput == pc = "exit" /\ exit_code # 0 /\ Requests = <<>>

\* get_location has run: the arguments were accepted and the run is past main.py:340
Located == pc \notin {"parse", "locate"} /\ ~(pc = "exit" /\ exit_code = 2)

\* C8: get_location ends the run with InvalidInput when a coordinate string has not
\* exactly two comma-separated numeric tokens in range, or when a named city is not in
\* the table (with the sorted list of the known names); it returns the default location
\* when neither is given; in every other case the location is in range. A coordinate
\* string is any --coords value; an empty --city names no city.
C8_GeocoderContract ==
    Located =>
        IF args.coords # None
        THEN IF WellFormedCoords(args.coords)
             THEN pc # "exit" /\ LocationInRange
             ELSE EndedInvalidInput
        ELSE IF Truthy(args.city)
        THEN IF lower(args.city) \in DOMAIN CITY_COORDINATES
             THEN pc # "exit" /\ LocationInRange
             ELSE /\ EndedInvalidInput
                  /\ \E i \in 1..Len(trace) :
                         /\ trace[i].ev = "city_not_found"
                         /\ trace[i].available = sorted(DOMAIN CITY_COORDINATES)
        ELSE /\ pc # "exit"
             /\ location = [lat |-> 476062, lng |-> -1223321,
                            name |-> <<"S","e","a","t","t","l","e">>]

----------------------------------------------------------------------------
\* what C9 says of the three suggestions, but for "the rating is at most minRating"
SuggestionsAsComputed(g) ==
    /\ 2 * g.reviews <= args.reviews /\ args.reviews <= 2 * g.reviews + 1
    /\ g.reviews <= args.reviews
    /\ g.rating = Max(args.rating - 2, 30)
    /\ g.radius = Min(args.radius + 1000, 3100)
    /\ g.radius >= args.radius

\* C9 as stated: whenever the ranked list is empty, the guidance suggests reviews halved
\* (<= minReviews), rating max(minRating - 0.2, 3.0) and <= minRating, radius
\* min(radius + 10, 31) and >= radius.
C9_SuggestionsRelaxed ==
    (pc = "done" /\ filtered_restaurants = <<>>) =>
        /\ Len(GuidanceShown) = 1
        /\ SuggestionsAsComputed(GuidanceShown[1])
        /\ GuidanceShown[1].rating <= args.rating

\* C9 as amended: the suggested rating is max(minRating - 0.2, 3.0), and is at most
\* minRating when minRating is at least 3.0.
C9_SuggestionsRelaxedFrom3 ==
    (pc = "done" /\ filtered_restaurants = <<>>) =>
        /\ Len(GuidanceShown) = 1
        /\ SuggestionsAsComputed(GuidanceShown[1])
        /\ args.rating >= 30 => GuidanceShown[1].rating <= args.rating

\* guidance was printed for a run that fetched restaurants and ranked none, at the
\* largest radius
C9_Witness ==
    /\ pc = "done"
    /\ all_restaurants # <<>>
    /\ filtered_restaurants = <<>>
    /\ args.radius = 3100
    /\ args.reviews = 300
    /\ Len(GuidanceShown) = 1

----------------------------------------------------------------------------
\* C10: the first request carries location and radius, no page token, and no delay
\* precedes it; every later request carries no location or radius, carries exactly the
\* non-empty token of the response just before it, which was a success, and one delay of
\* 2 units lies between that response and the request; no request follows a response
\* without a token.
C10_RequestProtocol ==
    \A i \in Positions("request") :
        LET params == trace[i].params
            earlier == {j \in Positions("response") : j < i}
        IN  IF earlier = {}
            THEN /\ {k \in Positions("request") : k < i} = {}
                 /\ params.location = <<location.lat, location.lng>>
                 /\ params.radius = radius_meters
                 /\ "pagetoken" \notin DOMAIN params
                 /\ {k \in Positions("sleep") : k < i} = {}
            ELSE LET last == CHOOSE j \in earlier : \A k \in earlier : k <= j
                     delays == {k \in Positions("sleep") : last < k /\ k < i}
                 IN  /\ {k \in Positions("request") : last < k /\ k < i} = {}
                     /\ "location" \notin DOMAIN params
                     /\ "radius" \notin DOMAIN params
                     /\ ~Failed(trace[last].outcome)
                     /\ TokenOf(trace[last].outcome) # <<>>
                     /\ params.pagetoken = TokenOf(trace[last].outcome)
                     /\ Cardinality(delays) = 1
                     /\ \A k \in delays : trace[k].seconds = 2

\* three pages were requested, the second with one token and the third with another
C10_Witness ==
    /\ Len(Requests) = 3
    /\ Requests[2].params.pagetoken = TokenA
    /\ Requests[3].params.pagetoken = TokenB

====
